---- MODULE Spec2Model ----
(***************************************************************************)
(* Model of the proposal generator backend: the Kiwify payment webhook     *)
(* (backend/app/payments), the session / paywall / quota routes            *)
(* (backend/app/routes.py, backend/app/auth/routes.py) and the tables they *)
(* read and write (backend/app/db/models.py).                              *)
(*                                                                         *)
(* A handler is cut into steps at its database round trips; a step's       *)
(* effect is an operator (kiwify_begin, kiwify_update, ...) that returns   *)
(* the response and the new rows, and the action applies it.  Requests are *)
(* inputs, drawn from the bounded sets Requests, Cookies, ...              *)
(***************************************************************************)
EXTENDS Integers, Sequences, FiniteSets, TLC

VARIABLES
    users,      \* table users: sequence of rows, row i has id i
    events,     \* table webhook_events: event_id -> number of rows holding it
    cfg,        \* process environment (os.getenv), fixed at start
    w,          \* webhook deliveries in flight: one record per worker
    out,        \* the last webhook response sent, and whether the delivery's
                \* insert into webhook_events was rolled back
    proposals,  \* table proposals: sequence of rows, row i has id i
    now,        \* datetime.utcnow()
    creates,    \* POST /create requests in flight: one record per worker
    sent,       \* the last PDF file sent: the session that asked, the proposal
    regs,       \* POST /register requests in flight: one record per worker
    page,       \* the last response of POST /register, with the cookie it set
    draft,      \* the argument of the text pipeline
    closed,     \* what the text pipeline returned for it
    payload,    \* the argument of the payment classifiers
    verdict     \* what the payment classifiers returned for it

vars == <<users, events, cfg, w, out, proposals, now, creates, sent,
          regs, page, draft, closed, payload, verdict>>

hookvars == <<events, w, out>>

sitevars == <<proposals, now, creates, sent>>

accountvars == <<regs, page>>

purevars == <<draft, closed, payload, verdict>>

-----------------------------------------------------------------------------
(* Python values.  Every JSON scalar is a string here; NONE is None / an   *)
(* absent key, "true" / "false" are the JSON booleans.                     *)

NONE == "<None>"

NoUser == 0

\* str.strip() on the strings of the model
Strip(s) ==
    CASE s = " tokA " -> "tokA"
      [] s = "tokA " -> "tokA"
      [] s = " tokA" -> "tokA"
      [] s = " P1 " -> "P1"
      [] s = " A@X.C " -> "A@X.C"
      [] OTHER -> s

\* str.lower() on the strings of the model
Lower(s) ==
    CASE s = "A@X.C" -> "a@x.c"
      [] s = "B@x.c" -> "b@x.c"
      [] s = "PAID" -> "paid"
      [] s = "Order.Paid" -> "order.paid"
      [] s = "Refunded" -> "refunded"
      [] s = "Bearer tokA" -> "bearer toka"
      [] s = "BEARER  tokA " -> "bearer  toka "
      [] s = "Bearer bad" -> "bearer bad"
      [] s = "tokA" -> "toka"
      [] s = "TOKA" -> "toka"
      [] OTHER -> s

\* s.startswith("bearer ")
StartsWithBearer(s) == s \in {"bearer toka", "bearer  toka ", "bearer bad"}

\* s.split(" ", 1)[1]
SplitAfterFirstSpace(s) ==
    CASE s = "Bearer tokA" -> "tokA"
      [] s = "BEARER  tokA " -> " tokA "
      [] s = "Bearer bad" -> "bad"
      [] OTHER -> s

\* "@" in s and "." in s
HasAtAndDot(s) == s \in {"a@x.c", "b@x.c", "A@X.C", "B@x.c", "z@x.c"}

-----------------------------------------------------------------------------
(* Webhook payloads.  A payload dict is flattened: the key of a nested     *)
(* value is its path ("customer.email").  Keys outside PayloadKeys are     *)
(* absent from every payload of the model.                                 *)

PayloadKeys ==
    {"id", "order_id", "event", "status", "order.status", "approved", "paid",
     "refunded", "chargeback", "s1", "user_id", "tracking.s1",
     "metadata.user_id", "customer.email", "email",
     "product_id", "offer_id", "plan_id", "product.id", "order.product_id"}

BlankData == [k \in PayloadKeys |-> NONE]

\* v not in (None, "", {}, [])
Present(v) == v # NONE /\ v # ""

\* _pick: the first of keys whose value is present, else None
RECURSIVE pick(_, _)
pick(d, keys) ==
    IF keys = <<>> THEN NONE
    ELSE IF Head(keys) \in DOMAIN d /\ Present(d[Head(keys)]) THEN d[Head(keys)]
    ELSE pick(d, Tail(keys))

\* _dig: the value at a path, None when a step of the path is missing
dig(d, path) == IF path \in DOMAIN d THEN d[path] ELSE NONE

\* _nested: the inner dict under "data" when there is one, else the payload
nested(body) == IF body.has_data THEN body.inner ELSE body.root

\* _safe_int: int(str(v).strip()), None when it does not parse
safe_int(v) ==
    CASE v = "1" -> 1
      [] v = " 1 " -> 1
      [] v = "2" -> 2
      [] v = "9" -> 9
      [] OTHER -> NoUser

\* _safe_str
safe_str(v) == IF v = NONE THEN "" ELSE Strip(v)

\* _norm: str(value or "").strip().lower()
norm(v) == IF v = NONE THEN "" ELSE Lower(Strip(v))

\* _as_email: the lowercased, stripped value when it looks like an email
as_email(v) ==
    IF v = NONE \/ v = "" THEN NONE
    ELSE IF HasAtAndDot(Lower(Strip(v))) THEN Lower(Strip(v)) ELSE NONE

\* _candidate_values: the normalised status-like fields, in the code's order
candidate_values(d) ==
    << norm(dig(d, "status")), norm(dig(d, "sale_status")), norm(dig(d, "event")),
       norm(dig(d, "type")), norm(dig(d, "name")), norm(dig(d, "action")),
       norm(dig(d, "order.status")), norm(dig(d, "data.status")),
       norm(dig(d, "purchase.status")), norm(dig(d, "payment.status")),
       norm(dig(d, "transaction.status")), norm(dig(d, "subscription.status")),
       norm(dig(d, "data.subscription_status")), norm(dig(d, "data.event")),
       norm(dig(d, "data.type")) >>

bad_values ==
    {"refunded", "refund", "chargeback", "charged_back", "chargedback", "dispute",
     "canceled", "cancelled", "cancel", "voided", "failed", "declined", "denied",
     "reversed", "reversal", "expired", "unpaid"}

\* c ends with .refunded/.chargeback/.canceled/.cancelled (or the ":" forms),
\* or contains "chargeback", "refunded" or "cancel"
NegativePattern(c) ==
    c \in {"refunded", "chargeback", "canceled", "cancelled", "cancel",
           "order.refunded", "order:refunded", "subscription_canceled",
           "subscription.canceled", "charge.chargeback"}

\* bool(v) of a JSON scalar
Truthy(v) == v \notin {NONE, "", "false"}

\* is_payment_refunded_or_chargeback
is_payment_refunded_or_chargeback(d) ==
    LET cs == candidate_values(d) IN
    \/ \E i \in DOMAIN cs :
          cs[i] # "" /\ (cs[i] \in bad_values \/ NegativePattern(cs[i]))
    \/ Truthy(dig(d, "refunded"))
    \/ Truthy(dig(d, "chargeback"))

ok_values ==
    {"approved", "paid", "payment_approved", "payment-approved", "payment.approved",
     "completed", "success", "succeeded", "confirmed", "paid_out", "paidout",
     "subscription_paid", "subscription.paid", "subscription_approved",
     "subscription.approved", "recurring_payment_approved",
     "recurring.payment_approved", "renewed", "subscription_renewed",
     "subscription.renewed"}

\* c ends with .approved/.paid/.succeeded/.completed (or the ":" forms)
ApprovedSuffix(c) ==
    c \in {"order.paid", "order:paid", "sale.approved", "subscription.paid",
           "payment.approved", "subscription.approved", "order.completed"}

\* the approval tests alone, without the look at negative events before them
is_payment_approved_unguarded(d) ==
    LET cs == candidate_values(d) IN
    \/ dig(d, "approved") = "true"
    \/ dig(d, "paid") = "true"
    \/ \E i \in DOMAIN cs :
          cs[i] # "" /\ (cs[i] \in ok_values \/ ApprovedSuffix(cs[i]))

\* is_payment_approved; its _normalize_payload leaves a dict unchanged unless
\* "data" / "payload" hold JSON text, which no payload of the model does
is_payment_approved(d) ==
    LET cs == candidate_values(d) IN
    IF is_payment_refunded_or_chargeback(d) THEN FALSE
    ELSE \/ dig(d, "approved") = "true"
         \/ dig(d, "paid") = "true"
         \/ \E i \in DOMAIN cs :
               cs[i] # "" /\ (cs[i] \in ok_values \/ ApprovedSuffix(cs[i]))

\* extract_buyer_email: the first path that holds an email, then the root keys
extract_buyer_email(d) ==
    LET paths == << "customer.email", "customer.email_address", "buyer.email",
                    "buyer.email_address", "user.email", "user.email_address",
                    "order.customer.email", "order.customer.email_address",
                    "order.buyer.email", "order.buyer.email_address",
                    "data.customer.email", "data.customer.email_address",
                    "data.buyer.email", "data.buyer.email_address",
                    "purchase.customer.email", "purchase.customer.email_address",
                    "purchase.buyer.email", "purchase.buyer.email_address",
                    "subscription.customer.email",
                    "subscription.customer.email_address",
                    "data.subscription.customer.email",
                    "data.subscription.customer.email_address",
                    "data.email", "data.email_address", "email", "email_address" >>
        hits == { i \in DOMAIN paths : as_email(dig(d, paths[i])) # NONE }
    IN  IF hits = {} THEN NONE
        ELSE as_email(dig(d, paths[CHOOSE i \in hits : \A j \in hits : i <= j]))

\* _extract_user_id_from_payload: the groups of keys in the code's order; a
\* group whose first present value is not an integer yields nothing
extract_user_id_from_payload(d) ==
    LET groups ==
          << <<"tracking.s1", "tracking.s2", "tracking.s3", "tracking.s4", "tracking.s5">>,
             <<"s1", "s2", "s3", "s4", "s5">>,
             <<"user_id", "customer_id", "external_id">>,
             <<"metadata.user_id", "metadata.customer_id", "metadata.external_id",
               "metadata.s1">>,
             <<"custom_fields.user_id", "custom_fields.customer_id",
               "custom_fields.external_id", "custom_fields.s1">>,
             <<"order.custom_fields.user_id", "order.custom_fields.customer_id",
               "order.custom_fields.external_id", "order.custom_fields.s1">>,
             <<"order.metadata.user_id", "order.metadata.customer_id",
               "order.metadata.external_id", "order.metadata.s1">>,
             <<"order.tracking.s1", "order.tracking.s2", "order.tracking.s3",
               "order.tracking.s4", "order.tracking.s5">>,
             <<"buyer.custom_fields.user_id", "buyer.custom_fields.customer_id",
               "buyer.custom_fields.external_id", "buyer.custom_fields.s1">>,
             <<"buyer.metadata.user_id", "buyer.metadata.customer_id",
               "buyer.metadata.external_id", "buyer.metadata.s1">>,
             <<"buyer.tracking.s1", "buyer.tracking.s2", "buyer.tracking.s3",
               "buyer.tracking.s4", "buyer.tracking.s5">> >>
        hits == { i \in DOMAIN groups : safe_int(pick(d, groups[i])) # NoUser }
    IN  IF hits = {} THEN NoUser
        ELSE safe_int(pick(d, groups[CHOOSE i \in hits : \A j \in hits : i <= j]))

\* _extract_product_markers: a candidate path fills the marker its LAST key
\* names, so "product.id" / "offer.id" / "plan.id" (last key "id") fill nothing
extract_product_markers(d) ==
    LET product_paths == <<"product_id", "order.product_id", "data.product_id",
                           "purchase.product_id">>
        offer_paths == <<"offer_id", "order.offer_id", "data.offer_id",
                         "purchase.offer_id">>
        plan_paths == <<"plan_id", "subscription_plan_id", "order.plan_id",
                        "order.subscription_plan_id", "data.plan_id",
                        "purchase.plan_id">>
        first(paths) ==
            LET hits == { i \in DOMAIN paths : safe_str(dig(d, paths[i])) # "" }
            IN  IF hits = {} THEN ""
                ELSE safe_str(dig(d, paths[CHOOSE i \in hits : \A j \in hits : i <= j]))
    IN  [product_id |-> first(product_paths),
         offer_id |-> first(offer_paths),
         plan_id |-> first(plan_paths)]

\* KIWIFY_PRO_PRODUCT_ID / _OFFER_ID / _PLAN_ID: (os.getenv(...) or "").strip()
KIWIFY_PRO_PRODUCT_ID == Strip(cfg.pro_product)
KIWIFY_PRO_OFFER_ID == Strip(cfg.pro_offer)
KIWIFY_PRO_PLAN_ID == Strip(cfg.pro_plan)

\* the comparison without the guards on the configured ids
is_pro_purchase_unguarded(markers) ==
    \/ markers.product_id = KIWIFY_PRO_PRODUCT_ID
    \/ markers.offer_id = KIWIFY_PRO_OFFER_ID
    \/ markers.plan_id = KIWIFY_PRO_PLAN_ID

\* _is_pro_purchase
is_pro_purchase(markers) ==
    IF KIWIFY_PRO_PRODUCT_ID = "" /\ KIWIFY_PRO_OFFER_ID = "" /\ KIWIFY_PRO_PLAN_ID = ""
    THEN FALSE
    ELSE \/ KIWIFY_PRO_PRODUCT_ID # "" /\ markers.product_id = KIWIFY_PRO_PRODUCT_ID
         \/ KIWIFY_PRO_OFFER_ID # "" /\ markers.offer_id = KIWIFY_PRO_OFFER_ID
         \/ KIWIFY_PRO_PLAN_ID # "" /\ markers.plan_id = KIWIFY_PRO_PLAN_ID

-----------------------------------------------------------------------------
(* Tables.                                                                 *)

\* a datetime: off = 0 is 00:00 of the first day of the month, off = 1 a later
\* instant of that month; NoTime is NULL
NoTime == [year |-> 0, month |-> 0, off |-> 0]

\* the clock at the start: December of year 1, after the first instant
StartTime == [year |-> 1, month |-> 12, off |-> 1]

\* datetime <= datetime
TimeLeq(a, b) ==
    \/ a.year < b.year
    \/ a.year = b.year /\ a.month < b.month
    \/ a.year = b.year /\ a.month = b.month /\ a.off <= b.off

\* a User row that starts paid
NewUser_paid(email) ==
    [email |-> email, is_paid |-> TRUE, plan |-> "free",
     monthly_quota_used |-> 0, quota_reset_at |-> NoTime]

\* models.User with its column defaults
NewUser(email) ==
    [email |-> email, is_paid |-> FALSE, plan |-> "free",
     monthly_quota_used |-> 0, quota_reset_at |-> NoTime]

UserIds == DOMAIN users

\* db.query(User).filter(User.id == uid).one_or_none() / .first()
user_by_id(uid) == IF uid \in UserIds THEN uid ELSE NoUser

\* db.query(User).filter(func.lower(User.email) == email).one_or_none()
user_by_email(email) ==
    LET hits == { u \in UserIds : Lower(users[u].email) = email }
    IN  IF hits = {} THEN NoUser ELSE CHOOSE u \in hits : TRUE

\* the event ids deliveries carry; a payload without one gets the synthetic
\* f"noid-{len(raw)}-{utcnow}", new at each delivery: its row is never read
\* again, and the table of the model does not keep it
EventIds == {"e1", "e2"}

SyntheticId == "noid"

\* db.query(WebhookEvent).filter(WebhookEvent.event_id == eid).one_or_none()
event_by_id(eid) == eid \in EventIds /\ events[eid] >= 1

\* INSERT INTO webhook_events with no check of event_id
insert_event_no_unique(ev, eid) ==
    IF eid \notin EventIds THEN [ok |-> TRUE, events |-> ev]
    ELSE [ok |-> TRUE, events |-> [ev EXCEPT ![eid] = @ + 1]]

\* INSERT INTO webhook_events + commit: event_id is unique=True, so a second
\* row for the same event_id raises IntegrityError
insert_event(ev, eid) ==
    IF eid \notin EventIds THEN [ok |-> TRUE, events |-> ev]
    ELSE IF ev[eid] >= 1 THEN [ok |-> FALSE, events |-> ev]
    ELSE [ok |-> TRUE, events |-> [ev EXCEPT ![eid] = @ + 1]]

-----------------------------------------------------------------------------
(* The deliveries the model sends.                                         *)

Data(over) == [k \in PayloadKeys |-> IF k \in DOMAIN over THEN over[k] ELSE NONE]

DictBody(over) ==
    [kind |-> "dict", has_data |-> FALSE, root |-> Data(over), inner |-> BlankData]

\* {"id": .., "data": {..}}
WrappedBody(rootover, over) ==
    [kind |-> "dict", has_data |-> TRUE, root |-> Data(rootover), inner |-> Data(over)]

\* who the payload names: by id, by id and email, by email, by a second key
Targets ==
    { "s1" :> "1",
      ("s1" :> "9") @@ ("customer.email" :> "A@X.C"),
      "customer.email" :> "b@x.c",
      ("s1" :> "abc") @@ ("user_id" :> "2"),
      "s1" :> "9" }

\* what the payload says was bought
Products ==
    { "product_id" :> "P1",
      ("product_id" :> "P2") @@ ("offer_id" :> "O1"),
      "plan_id" :> "L1" }

ApprovedBodies ==
    { DictBody(t @@ p @@ ("id" :> e) @@ ("status" :> "paid")) :
        t \in Targets, p \in Products, e \in {"e1"} }

BaseData == ("id" :> "e1") @@ ("s1" :> "1") @@ ("product_id" :> "P1")

BaseBody == DictBody(BaseData @@ ("status" :> "paid"))

OtherBodies ==
    { [kind |-> "unparsable", has_data |-> FALSE, root |-> BlankData, inner |-> BlankData],
      [kind |-> "list", has_data |-> FALSE, root |-> BlankData, inner |-> BlankData],
      DictBody("id" :> NONE),
      DictBody(BaseData @@ ("status" :> "waiting_payment")),
      DictBody(BaseData @@ ("status" :> "refunded") @@ ("approved" :> "true")),
      DictBody(BaseData @@ ("approved" :> "true")),
      DictBody(BaseData @@ ("event" :> "Order.Paid") @@ ("id" :> "e2")),
      DictBody(("s1" :> "2") @@ ("plan_id" :> "L1") @@ ("status" :> "paid")),
      DictBody(("order_id" :> "e2") @@ ("s1" :> "2") @@ ("order.product_id" :> " P1 ")
               @@ ("order.status" :> "PAID")),
      DictBody(("id" :> "e2") @@ ("tracking.s1" :> "2") @@ ("s1" :> "1")
               @@ ("customer.email" :> "a@x.c") @@ ("product.id" :> "P1")
               @@ ("status" :> "paid")),
      DictBody(("id" :> "e1") @@ ("email" :> "z@x.c") @@ ("status" :> "paid")),
      DictBody(("id" :> "e1") @@ ("status" :> "paid")),
      WrappedBody("id" :> "e2", BaseData @@ ("status" :> "paid")),
      WrappedBody("status" :> "paid", "s1" :> "1") }

Bodies == ApprovedBodies \cup OtherBodies

GoodToken == [header |-> "tokA", qtoken |-> NONE, qsignature |-> NONE]

TokenVariants ==
    { [header |-> NONE, qtoken |-> NONE, qsignature |-> NONE],
      [header |-> "", qtoken |-> "", qsignature |-> NONE],
      [header |-> "bad", qtoken |-> "tokA", qsignature |-> NONE],
      [header |-> "TOKA", qtoken |-> NONE, qsignature |-> NONE],
      [header |-> "tokA ", qtoken |-> NONE, qsignature |-> NONE],
      [header |-> "Bearer tokA", qtoken |-> NONE, qsignature |-> NONE],
      [header |-> "BEARER  tokA ", qtoken |-> NONE, qsignature |-> NONE],
      [header |-> "Bearer bad", qtoken |-> NONE, qsignature |-> NONE],
      [header |-> NONE, qtoken |-> "tokA", qsignature |-> NONE],
      [header |-> "", qtoken |-> NONE, qsignature |-> "tokA"] }

Request(tok, body) ==
    [header |-> tok.header, qtoken |-> tok.qtoken, qsignature |-> tok.qsignature,
     body |-> body]

Requests ==
    { Request(GoodToken, b) : b \in Bodies }
    \cup { Request(t, BaseBody) : t \in TokenVariants }

Configs ==
    { [token |-> " tokA ", pro_product |-> " P1 ", pro_offer |-> "O1", pro_plan |-> "",
       admin_key |-> "123456", ai_mode |-> "stub", openai_api_key |-> ""],
      [token |-> "", pro_product |-> "", pro_offer |-> "", pro_plan |-> "",
       admin_key |-> "123456", ai_mode |-> "stub", openai_api_key |-> ""] }

\* the query of a step that raises a database error, if any
BeginFaults == {"idem", "by_id", "by_email"}

\* the deliveries that meet a database error in their first queries
FaultProbes ==
    { Request(GoodToken, DictBody(t @@ ("id" :> "e1") @@ ("product_id" :> "P1")
                                  @@ ("status" :> "paid"))) :
        t \in { "s1" :> "2", ("s1" :> "9") @@ ("customer.email" :> "A@X.C") } }

Deliveries ==
    { <<req, "none">> : req \in Requests }
    \cup { <<req, fault>> : req \in FaultProbes, fault \in BeginFaults }
UpdateFaults == {"none", "commit"}
RecordFaults == {"none", "insert", "refresh"}

-----------------------------------------------------------------------------
(* POST /webhooks/kiwify                                                   *)

\* a JSON body of the handler
WResp(ignored, idempotent, approved, reason, detail) ==
    [status |-> 200, ok |-> TRUE, ignored |-> ignored, idempotent |-> idempotent,
     approved |-> approved, reason |-> reason, detail |-> detail]

NoResp ==
    [status |-> 0, ok |-> FALSE, ignored |-> FALSE, idempotent |-> FALSE,
     approved |-> FALSE, reason |-> "", detail |-> ""]

\* an exception that leaves the handler: the framework answers 500
ServerError ==
    [status |-> 500, ok |-> FALSE, ignored |-> FALSE, idempotent |-> FALSE,
     approved |-> FALSE, reason |-> "", detail |-> ""]

Sent(resp, rolled_back) == [resp |-> resp, rolled_back |-> rolled_back]

\* a worker between deliveries
IdleWorker ==
    [pc |-> "idle", eid |-> NONE, user |-> NoUser, is_pro |-> FALSE, late |-> FALSE]

\* headers.get("x-kiwify-token") or query_params.get("token")
\*   or query_params.get("signature")
received_token(req) == pick(req, <<"header", "qtoken", "qsignature">>)

\* the token after the "Bearer " prefix is cut
bearer_stripped(tok) ==
    IF StartsWithBearer(Lower(tok)) THEN Strip(SplitAfterFirstSpace(tok)) ELSE tok

\* not payload: an empty dict, and the {} left by a body that does not parse
payload_empty(body) ==
    \/ body.kind = "unparsable"
    \/ body.kind = "dict" /\ ~body.has_data /\ \A k \in PayloadKeys : body.root[k] = NONE

\* what steps 1-4 of kiwify_webhook read off a body with the helpers above:
\* event_id (before the synthetic id), approval, user_id, buyer_email, markers
payload_facts(body) ==
    LET data == nested(body) IN
    [empty |-> payload_empty(body),
     is_dict |-> body.kind = "dict",
     event_id |-> pick(data, <<"id", "event_id", "order_id", "transaction_id",
                               "charge_id", "sale_id">>),
     approved |-> is_payment_approved(data),
     user_id |-> extract_user_id_from_payload(data),
     buyer_email |-> extract_buyer_email(data),
     markers |-> extract_product_markers(data)]

\* the deliveries in a fixed order, and the facts of each one's body
RECURSIVE SetToSeq(_)
SetToSeq(S) ==
    IF S = {} THEN <<>>
    ELSE LET x == CHOOSE y \in S : TRUE IN <<x>> \o SetToSeq(S \ {x})

Inputs == SetToSeq(Deliveries)

InputFacts == [i \in DOMAIN Inputs |-> payload_facts(Inputs[i][1].body)]

\* the suffix of reason "user_nao_encontrado"
not_found_detail(user_id, buyer_email) ==
    IF user_id # NoUser /\ buyer_email # NONE THEN ":user_id;email"
    ELSE IF user_id # NoUser THEN ":user_id"
    ELSE IF buyer_email # NONE THEN ":email"
    ELSE ":sem_user_id_sem_email"

\* the outcome of a step of the handler: whether an exception left it, where the
\* delivery stands, the tables as the step leaves them, the response if any
Returns(resp) ==
    [raised |-> FALSE, pc |-> "idle", eid |-> NONE, user |-> NoUser,
     is_pro |-> FALSE, users |-> users, events |-> events, resp |-> resp]

Raises ==
    [raised |-> TRUE, pc |-> "idle", eid |-> NONE, user |-> NoUser,
     is_pro |-> FALSE, users |-> users, events |-> events, resp |-> NoResp]

Continues(pc, eid, user, is_pro) ==
    [raised |-> FALSE, pc |-> pc, eid |-> eid, user |-> user,
     is_pro |-> is_pro, users |-> users, events |-> events, resp |-> NoResp]

\* the handler without its outer try: an exception reaches the framework
never_fail_uncaught(r) ==
    IF r.raised THEN [r EXCEPT !.raised = FALSE, !.resp = ServerError] ELSE r

\* the outer try / except Exception of kiwify_webhook: "Nunca falha: sempre 200"
never_fail(r) ==
    IF r.raised
    THEN [r EXCEPT !.raised = FALSE,
                   !.resp = WResp(TRUE, FALSE, FALSE, "debug_error", "")]
    ELSE r

\* the lookup with the buyer email tried before the user id
kiwify_lookup_email_first(eid, user_id, buyer_email, is_pro, fault) ==
    IF fault # "idem" /\ event_by_id(eid)
    THEN Returns(WResp(FALSE, TRUE, FALSE, "", ""))
    ELSE IF buyer_email # NONE /\ fault = "by_email" THEN Raises
    ELSE LET by_email == IF buyer_email # NONE THEN user_by_email(buyer_email)
                         ELSE NoUser IN
         IF by_email = NoUser /\ user_id # NoUser /\ fault = "by_id" THEN Raises
         ELSE LET user == IF by_email = NoUser /\ user_id # NoUser
                          THEN user_by_id(user_id) ELSE by_email IN
              IF user = NoUser
              THEN Returns(WResp(TRUE, FALSE, FALSE, "user_nao_encontrado",
                                 not_found_detail(user_id, buyer_email)))
              ELSE Continues("update", eid, user, is_pro)

\* step 5 of kiwify_webhook up to the user lookup: the idempotency check (an
\* error of its query is swallowed), the lookup by id, the fallback by email
kiwify_lookup(eid, user_id, buyer_email, is_pro, fault) ==
    IF fault # "idem" /\ event_by_id(eid)
    THEN Returns(WResp(FALSE, TRUE, FALSE, "", ""))
    ELSE IF user_id # NoUser /\ fault = "by_id" THEN Raises
    ELSE LET by_id == IF user_id # NoUser THEN user_by_id(user_id) ELSE NoUser IN
         IF by_id = NoUser /\ buyer_email # NONE /\ fault = "by_email" THEN Raises
         ELSE LET user == IF by_id = NoUser /\ buyer_email # NONE
                          THEN user_by_email(buyer_email) ELSE by_id IN
              IF user = NoUser
              THEN Returns(WResp(TRUE, FALSE, FALSE, "user_nao_encontrado",
                                 not_found_detail(user_id, buyer_email)))
              ELSE Continues("update", eid, user, is_pro)

\* steps 1-4 without "3) so aprovado"
kiwify_payload_any_status(f, fault) ==
    IF f.empty
    THEN Returns(WResp(TRUE, FALSE, FALSE, "payload vazio (teste?)", ""))
    ELSE IF ~f.is_dict THEN Raises
    ELSE kiwify_lookup(IF f.event_id # NONE THEN f.event_id ELSE SyntheticId,
                       f.user_id, f.buyer_email, is_pro_purchase(f.markers), fault)

\* steps 1-4 of kiwify_webhook, after the token is accepted
kiwify_payload(f, fault) ==
    IF f.empty
    THEN Returns(WResp(TRUE, FALSE, FALSE, "payload vazio (teste?)", ""))
    ELSE IF ~f.is_dict THEN Raises   \* _nested: a list has no .get
    ELSE IF ~f.approved
    THEN Returns(WResp(TRUE, FALSE, FALSE, "nao_aprovado", ""))
    ELSE kiwify_lookup(IF f.event_id # NONE THEN f.event_id ELSE SyntheticId,
                       f.user_id, f.buyer_email, is_pro_purchase(f.markers), fault)

\* the token compared without regard to case
token_check_caseless(req) ==
    LET expected_token == Strip(cfg.token)
        token == received_token(req)
    IN  IF expected_token = "" THEN "ok"
        ELSE IF ~Present(token) THEN "token ausente"
        ELSE IF Lower(bearer_stripped(token)) # Lower(expected_token)
        THEN "token invalido"
        ELSE "ok"

\* step 0 of kiwify_webhook: the token, checked when KIWIFY_WEBHOOK_TOKEN is set
token_check(req) ==
    LET expected_token == Strip(cfg.token)
        token == received_token(req)
    IN  IF expected_token = "" THEN "ok"
        ELSE IF ~Present(token) THEN "token ausente"
        ELSE IF bearer_stripped(token) # expected_token THEN "token invalido"
        ELSE "ok"

\* kiwify_webhook from the request to the user lookup
kiwify_begin(req, f, fault) ==
    IF token_check(req) # "ok"
    THEN Returns(WResp(TRUE, FALSE, FALSE, token_check(req), ""))
    ELSE kiwify_payload(f, fault)

\* the upgrade whose failed commit goes unnoticed: the handler moves on
kiwify_update_commit_unchecked(p, fault) ==
    IF ~p.is_pro \/ fault = "commit"
    THEN [raised |-> FALSE, users |-> users, events |-> events, resp |-> NoResp]
    ELSE [raised |-> FALSE, events |-> events, resp |-> NoResp,
          users |-> [users EXCEPT ![p.user].is_paid = TRUE, ![p.user].plan = "pro"]]

\* "5) liberar": only a PRO purchase sets is_paid / plan and commits; any other
\* approved purchase rolls back
kiwify_update(p, fault) ==
    IF ~p.is_pro
    THEN [raised |-> FALSE, users |-> users, events |-> events, resp |-> NoResp]
    ELSE IF fault = "commit"
    THEN [raised |-> TRUE, users |-> users, events |-> events, resp |-> NoResp]
    ELSE [raised |-> FALSE, events |-> events, resp |-> NoResp,
          users |-> [users EXCEPT ![p.user].is_paid = TRUE, ![p.user].plan = "pro"]]

\* "registra evento": the insert, whose IntegrityError (or any other error) is
\* rolled back, then the response, which reloads the expired user row
kiwify_record(p, fault) ==
    LET ins == IF fault = "insert" THEN [ok |-> FALSE, events |-> events]
               ELSE insert_event(events, p.eid)
    IN  IF fault = "refresh"
        THEN [raised |-> TRUE, users |-> users, events |-> ins.events,
              rolled_back |-> ~ins.ok, resp |-> NoResp]
        ELSE [raised |-> FALSE, users |-> users, events |-> ins.events,
              rolled_back |-> ~ins.ok, resp |-> WResp(FALSE, FALSE, TRUE, "", "")]

-----------------------------------------------------------------------------
(* Actions of the webhook.                                                 *)

Workers == {1, 2}

\* the delivery is an approved webhook that passes the token check and whose
\* event_id already has a row when it arrives
late_delivery(req, f) ==
    /\ token_check(req) = "ok"
    /\ f.is_dict /\ ~f.empty /\ f.approved
    /\ f.event_id # NONE
    /\ event_by_id(f.event_id)

\* a delivery arrives and runs up to the user lookup
KiwifyArrive(p) ==
    /\ w[p].pc = "idle"
    /\ \E i \in DOMAIN Inputs :
         LET req == Inputs[i][1]
             f == InputFacts[i]
             r == never_fail(kiwify_begin(req, f, Inputs[i][2]))
         IN
         /\ w' = [w EXCEPT ![p] = [pc |-> r.pc, eid |-> r.eid, user |-> r.user,
                                   is_pro |-> r.is_pro,
                                   late |-> r.pc # "idle" /\ late_delivery(req, f)]]
         /\ out' = IF r.pc = "idle" THEN Sent(r.resp, FALSE) ELSE out
         /\ users' = r.users
         /\ events' = r.events
    /\ UNCHANGED <<cfg, sitevars, accountvars, purevars>>

\* the delivery commits the user's upgrade, or rolls back
KiwifyUpdate(p) ==
    /\ w[p].pc = "update"
    /\ \E fault \in UpdateFaults :
         LET r == never_fail(kiwify_update(w[p], fault)) IN
         /\ users' = r.users
         /\ events' = r.events
         /\ IF r.resp = NoResp
            THEN w' = [w EXCEPT ![p].pc = "record"] /\ out' = out
            ELSE w' = [w EXCEPT ![p] = IdleWorker]
                 /\ out' = Sent(r.resp, FALSE)
    /\ UNCHANGED <<cfg, sitevars, accountvars, purevars>>

\* the delivery records its event and answers
KiwifyRecord(p) ==
    /\ w[p].pc = "record"
    /\ \E fault \in RecordFaults :
         LET r == never_fail(kiwify_record(w[p], fault)) IN
         /\ users' = r.users
         /\ events' = r.events
         /\ w' = [w EXCEPT ![p] = IdleWorker]
         /\ out' = Sent(r.resp, r.rolled_back)
    /\ UNCHANGED <<cfg, sitevars, accountvars, purevars>>

CreateWorkers == {1, 2}

\* a worker between POST /create requests
IdleCreate ==
    [pc |-> "idle", user |-> NoUser, is_paid |-> FALSE, plan |-> "free", text |-> << >>]

\* responses of the site
NoHttp == [status |-> 0, kind |-> "none", target |-> "", proposal |-> 0]

RedirectResponse(url) ==
    [status |-> 303, kind |-> "redirect", target |-> url, proposal |-> 0]

TemplateResponse(name, status_code) ==
    [status |-> status_code, kind |-> "html", target |-> name, proposal |-> 0]

PlainTextResponse(text, status_code) ==
    [status |-> status_code, kind |-> "text", target |-> text, proposal |-> 0]

\* Response(content=pdf_bytes, media_type="application/pdf") for a proposal
PdfResponse(proposal_id) ==
    [status |-> 200, kind |-> "pdf", target |-> "", proposal |-> proposal_id]

\* the session cookie: absent, or a JWT whose signature and expiry verify or
\* not, carrying a claim "sub"
NoCookie == [present |-> FALSE, sig_ok |-> FALSE, sub |-> NONE]

Jwt(sig_ok, sub) == [present |-> TRUE, sig_ok |-> sig_ok, sub |-> sub]

\* no PDF file sent yet
NoPdf == [cookie |-> [present |-> FALSE, sig_ok |-> FALSE, sub |-> NONE], proposal |-> 0]

\* an exception that leaves a route: the framework answers 500
UnhandledError == [status |-> 500, kind |-> "error", target |-> "", proposal |-> 0]

RegisterWorkers == {1, 2}

\* a worker between POST /register requests
IdleRegister == [pc |-> "idle", email |-> ""]

\* no response of POST /register yet
NoPage == [resp |-> NoHttp, cookie |-> NoCookie]

\* no registration in flight
AccountIdle ==
    /\ regs = [k \in RegisterWorkers |-> IdleRegister]
    /\ page = NoPage

\* the text pipeline has returned nothing yet
NotClosed == [by |-> "none", value |-> << >>]

\* the payment classifiers have returned nothing yet
NoVerdict == [done |-> FALSE, negative |-> FALSE, approved |-> FALSE]

\* no pure function under study
PureIdle ==
    /\ draft = << >>
    /\ closed = NotClosed
    /\ payload = BlankData
    /\ verdict = NoVerdict

\* the database after two registrations, no event recorded, any environment
WebhookInit ==
    /\ users = << NewUser("a@x.c"), NewUser("b@x.c") >>
    /\ events = [e \in EventIds |-> 0]
    /\ cfg \in Configs
    /\ w = [p \in Workers |-> IdleWorker]
    /\ out = Sent(NoResp, FALSE)
    /\ proposals = << >>
    /\ now = StartTime
    /\ creates = [k \in CreateWorkers |-> IdleCreate]
    /\ sent = NoPdf
    /\ AccountIdle
    /\ PureIdle

WebhookNext ==
    \E p \in Workers : KiwifyArrive(p) \/ KiwifyUpdate(p) \/ KiwifyRecord(p)

WebhookSpec == WebhookInit /\ [][WebhookNext]_vars

-----------------------------------------------------------------------------
(* The closing of a proposal text (services/proposal_generator.py).  A     *)
(* text is a sequence of tokens: "w" a run of ordinary characters, "sp" a  *)
(* space, "nl" and "cr" the line breaks \n and \r, "ns" the words          *)
(* "Próximos passos" in any case, "sig" a signature word with the comma    *)
(* after it ("Atenciosamente,"), "lb" and "rb" the brackets [ and ], "dash" *)
(* a hyphen, "num" a numbering ("1.").                                      *)

Tokens == {"w", "sp", "nl", "cr", "ns", "sig", "lb", "rb", "dash", "num"}

\* what \s matches and str.strip() removes
Blank == {"sp", "nl", "cr"}

NEXT_STEPS_BLOCK ==
    << "ns", "nl", "dash", "sp", "w", "nl", "dash", "sp", "w", "nl", "dash", "sp", "w" >>

\* the tokens of t at the indices in S, in their order
Keep(t, S) ==
    [j \in 1..Cardinality(S) |->
        t[CHOOSE i \in S : Cardinality({ k \in S : k <= i }) = j]]

\* _normalize: "\r\n" and "\r" become "\n" (the other characters it replaces
\* are outside Tokens)
normalize(t) ==
    LET kept == Keep(t, { i \in DOMAIN t : ~(t[i] = "nl" /\ i > 1 /\ t[i - 1] = "cr") })
    IN  [j \in DOMAIN kept |-> IF kept[j] = "cr" THEN "nl" ELSE kept[j]]

\* str.rstrip(chars)
rstrip(t, chars) ==
    SubSeq(t, 1, Len(t) - Cardinality({ i \in DOMAIN t : \A j \in i..Len(t) : t[j] \in chars }))

\* str.lstrip()
lstrip(t) ==
    SubSeq(t, 1 + Cardinality({ i \in DOMAIN t : \A j \in 1..i : t[j] \in Blank }), Len(t))

\* str.strip()
strip(t) == lstrip(rstrip(t, Blank))

\* re.sub(r"\[.*?\]", "", t, flags=re.DOTALL): each "[" outside an earlier match
\* is cut with the text up to the nearest "]" after it; index k falls in a match
\* when a "[" at or before k has its nearest later "]" at or after k
remove_brackets(t) ==
    Keep(t, { k \in DOMAIN t :
                ~\E q \in 1..k :
                    /\ t[q] = "lb"
                    /\ \A m \in q..(k - 1) : t[m] # "rb"
                    /\ \E j \in k..Len(t) : j > q /\ t[j] = "rb" })

\* (?:^|\n)\s* matches just before index i: only blanks lie between a line
\* start and i
AtLineStart(t, i) ==
    \E j \in 1..i :
       /\ \A k \in j..(i - 1) : t[k] \in Blank
       /\ (j = 1 \/ t[j - 1] = "nl")

\* the least element of a set of indices, 0 for the empty set
First(S) == IF S = {} THEN 0 ELSE CHOOSE i \in S : \A j \in S : i <= j

\* re.sub(sig_pattern, "", t): the first signature word at a line start is cut
\* with all that follows it; the blanks left before it go in the strip() that
\* follows
remove_signature(t) ==
    LET i == First({ k \in DOMAIN t : t[k] = "sig" /\ AtLineStart(t, k) })
    IN  IF i = 0 THEN t ELSE SubSeq(t, 1, i - 1)

\* re.sub(r"\n{3,}", "\n\n", t): of a run of line breaks the first two stay
collapse_newlines(t) ==
    Keep(t, { i \in DOMAIN t :
                ~(i >= 3 /\ t[i] = "nl" /\ t[i - 1] = "nl" /\ t[i - 2] = "nl") })

\* sanitize_proposal_text
sanitize_proposal_text(t) ==
    IF t = << >> THEN << >>
    ELSE LET a == strip(normalize(t))
             b == strip(remove_brackets(a))
             c == strip(remove_signature(b))
             d == rstrip(c, {"sp", "nl", "cr", "dash"})
         IN  strip(collapse_newlines(d))

\* where the heading pattern, matched at "ns" in index i, starts: at the
\* numbering before the heading when that starts the line, else at the heading
\* when it starts the line, else 0 (no match)
heading_start(t, i) ==
    LET n == First({ k \in 1..(i - 1) :
                       /\ t[k] = "num"
                       /\ \A m \in (k + 1)..(i - 1) : t[m] \in Blank })
    IN  IF n # 0 /\ AtLineStart(t, n) THEN n
        ELSE IF AtLineStart(t, i) THEN i
        ELSE 0

\* the pipeline stage that leaves an earlier heading where it is
remove_next_steps_kept(t) == IF t = << >> THEN << >> ELSE strip(normalize(t))

\* remove_next_steps_and_below: the first "Próximos passos" heading is cut
\* with all that follows it
remove_next_steps_and_below(t) ==
    IF t = << >> THEN << >>
    ELSE LET u == normalize(t)
             i == First({ k \in DOMAIN u : u[k] = "ns" /\ heading_start(u, k) # 0 })
         IN  IF i = 0 THEN strip(u)
             ELSE strip(SubSeq(u, 1, heading_start(u, i) - 1))

\* apply_next_steps
apply_next_steps(t) ==
    LET base == sanitize_proposal_text(remove_next_steps_and_below(t)) IN
    IF base = << >> THEN NEXT_STEPS_BLOCK
    ELSE base \o <<"nl", "nl">> \o NEXT_STEPS_BLOCK

\* routes._finalize_proposal_text
finalize_proposal_text(t) == apply_next_steps(sanitize_proposal_text(t))

-----------------------------------------------------------------------------
(* The site: sessions, registration, the paywall, the Free quota.          *)

FREE_MONTHLY_LIMIT == 2

MaxProposals == 3

MaxTicks == 1

\* the month after t with no turn of the year
first_day_next_month_same_year(t) == [year |-> t.year, month |-> t.month + 1, off |-> 0]

\* _first_day_next_month_utc
first_day_next_month_utc(t) ==
    LET month == t.month + 1 IN
    IF month = 13
    THEN [year |-> t.year + 1, month |-> 1, off |-> 0]
    ELSE [year |-> t.year, month |-> month, off |-> 0]

\* the instants of the clock passed since the start
Elapsed(t) ==
    2 * (12 * (t.year - StartTime.year) + t.month - StartTime.month)
      + t.off - StartTime.off

Cookies ==
    { NoCookie, Jwt(FALSE, "1"), Jwt(TRUE, "1"), Jwt(TRUE, "2"),
      Jwt(TRUE, "x"), Jwt(TRUE, NONE) }

\* int(sub) for the claims of the model; 0 stands for its ValueError
int_of(sub) ==
    CASE sub = "1" -> 1
      [] sub = "2" -> 2
      [] sub = "3" -> 3
      [] OTHER -> 0

\* the user named by the cookie, whatever its signature and expiry
get_current_user_unverified(cookie) ==
    IF ~cookie.present THEN NoUser
    ELSE IF cookie.sub = NONE THEN NoUser
    ELSE IF int_of(cookie.sub) = 0 THEN NoUser
    ELSE user_by_id(int_of(cookie.sub))

\* auth.routes.get_current_user: the user of the session, or None
get_current_user(cookie) ==
    IF ~cookie.present THEN NoUser
    ELSE IF ~cookie.sig_ok THEN NoUser      \* decode_access_token: PyJWTError
    ELSE IF cookie.sub = NONE THEN NoUser
    ELSE IF int_of(cookie.sub) = 0 THEN NoUser
    ELSE user_by_id(int_of(cookie.sub))

\* models.Proposal, the columns the routes filter on
NewProposal(user_id, created_at, proposal_text) ==
    [user_id |-> user_id, created_at |-> created_at, proposal_text |-> proposal_text]

\* db.query(Proposal).filter(Proposal.id == proposal_id,
\*                           Proposal.user_id == user.id).first()
proposal_of(proposal_id, user) ==
    IF proposal_id \in DOMAIN proposals /\ proposals[proposal_id].user_id = user
    THEN proposal_id ELSE 0

\* the PDF route without the filter on the owner
proposal_pdf_any_owner(cookie, proposal_id, renders) ==
    LET user == get_current_user(cookie) IN
    IF user = NoUser THEN RedirectResponse("/login")
    ELSE IF ~users[user].is_paid THEN RedirectResponse("/paywall?reason=pdf")
    ELSE IF proposal_id \notin DOMAIN proposals THEN RedirectResponse("/history")
    ELSE IF ~renders THEN UnhandledError
    ELSE PdfResponse(proposal_id)

\* GET /proposal/{proposal_id}/pdf; renders: build_proposal_pdf returns
proposal_pdf(cookie, proposal_id, renders) ==
    LET user == get_current_user(cookie) IN
    IF user = NoUser THEN RedirectResponse("/login")
    ELSE IF ~users[user].is_paid THEN RedirectResponse("/paywall?reason=pdf")
    ELSE LET p == proposal_of(proposal_id, user) IN
         IF p = 0 THEN RedirectResponse("/history")
         ELSE IF ~renders THEN UnhandledError
         ELSE PdfResponse(p)

HISTORY_LIMIT == 50

\* the ids of the rows of user, newest id first, at most n of them:
\* .filter(Proposal.user_id == user.id).order_by(Proposal.id.desc()).limit(n)
RECURSIVE newest_first(_, _, _)
newest_first(rows, user, n) ==
    LET ids == { i \in DOMAIN rows : rows[i].user_id = user } IN
    IF ids = {} \/ n = 0 THEN << >>
    ELSE LET top == CHOOSE i \in ids : \A j \in ids : j <= i IN
         <<top>> \o newest_first([i \in 1..(top - 1) |-> rows[i]], user, n - 1)

\* what a page of the site shows: the response, and the proposals it lists
Page(resp, listed) == [resp |-> resp, listed |-> listed]

\* the proposal page, which shows proposal p
DetailResponse(p) ==
    [status |-> 200, kind |-> "html", target |-> "proposal_detail.html", proposal |-> p]

\* GET /
home(cookie) ==
    IF get_current_user(cookie) = NoUser THEN RedirectResponse("/login")
    ELSE RedirectResponse("/create")

\* GET /create
create_page(cookie) ==
    IF get_current_user(cookie) = NoUser THEN RedirectResponse("/login")
    ELSE TemplateResponse("create_proposal.html", 200)

\* the history with the proposals of every user
history_page_all_users(cookie) ==
    LET user == get_current_user(cookie) IN
    IF user = NoUser THEN Page(RedirectResponse("/login"), << >>)
    ELSE Page(TemplateResponse("history.html", 200),
              [j \in 1..Len(proposals) |-> Len(proposals) + 1 - j])

\* GET /history
history_page(cookie) ==
    LET user == get_current_user(cookie) IN
    IF user = NoUser THEN Page(RedirectResponse("/login"), << >>)
    ELSE Page(TemplateResponse("history.html", 200),
              newest_first(proposals, user, HISTORY_LIMIT))

\* GET /proposal/{proposal_id}
proposal_detail(cookie, proposal_id) ==
    LET user == get_current_user(cookie) IN
    IF user = NoUser THEN RedirectResponse("/login")
    ELSE LET p == proposal_of(proposal_id, user) IN
         IF p = 0 THEN RedirectResponse("/history")
         ELSE DetailResponse(p)

\* str(user.id) for the ids of the model
str_of(n) ==
    CASE n = 1 -> "1"
      [] n = 2 -> "2"
      [] OTHER -> "3"

\* create_access_token: a JWT signed with the secret, "sub" is str(user_id)
create_access_token(user_id) == Jwt(TRUE, str_of(user_id))

\* the outcome of a step of register_action: where the request stands, the
\* table as the step leaves it, the response and the cookie it sets, if any
RegisterGoes(email) ==
    [pc |-> "insert", email |-> email, users |-> users, resp |-> NoHttp,
     cookie |-> NoCookie]

RegisterEnds(resp, users_after, cookie) ==
    [pc |-> "idle", email |-> "", users |-> users_after, resp |-> resp,
     cookie |-> cookie]

\* INSERT INTO users with no unique index on email
insert_user_no_unique(email) ==
    [ok |-> TRUE, users |-> Append(users, NewUser(email))]

\* db.add(user); db.commit(): email is unique=True, so a second row with the
\* same email raises IntegrityError
insert_user(email) ==
    IF \E u \in UserIds : users[u].email = email
    THEN [ok |-> FALSE, users |-> users]
    ELSE [ok |-> TRUE, users |-> Append(users, NewUser(email))]

\* register_action up to the insert: the email is trimmed, lowercased and
\* validated, looked up, and the password hashed
register_check(email_in, password) ==
    LET email == Lower(Strip(email_in))
        invalid == RegisterEnds(TemplateResponse("register.html", 400), users, NoCookie)
    IN  IF ~HasAtAndDot(email) THEN invalid
        ELSE IF \E u \in UserIds : users[u].email = email THEN invalid
        ELSE IF Len(password) < 6 THEN invalid      \* hash_password: ValueError
        ELSE RegisterGoes(email)

\* the insert and commit (its IntegrityError is not caught), then the cookie
\* and the redirect
register_insert(email) ==
    LET ins == insert_user(email) IN
    IF ~ins.ok THEN RegisterEnds(UnhandledError, users, NoCookie)
    ELSE RegisterEnds(RedirectResponse("/paywall"), ins.users,
                      create_access_token(Len(ins.users)))

\* POST /register run without interruption
register_action(email_in, password) ==
    LET c == register_check(email_in, password) IN
    IF c.pc = "insert" THEN register_insert(c.email) ELSE c

\* GET /admin/unlock
admin_unlock(email_in, key) ==
    LET admin_key == Strip(cfg.admin_key) IN
    IF admin_key = "" \/ key # admin_key
    THEN [users |-> users, resp |-> PlainTextResponse("forbidden", 403)]
    ELSE LET email == Lower(Strip(email_in))
             hits == { u \in UserIds : users[u].email = email }
         IN  IF hits = {}
             THEN [users |-> users, resp |-> PlainTextResponse("user_not_found", 404)]
             ELSE [users |-> [users EXCEPT ![CHOOSE u \in hits : TRUE].is_paid = TRUE],
                   resp |-> PlainTextResponse("ok_unlocked", 200)]

\* what the call to api.openai.com comes to; with no OPENAI_API_KEY it is not
\* made
RemoteOutcomes ==
    IF Strip(cfg.openai_api_key) = "" THEN {"no_key"}
    ELSE {"http_error", "exception", "empty", "text"}

\* a text of the remote model: paragraphs, a heading "Próximos passos" and a
\* signature of its own, a placeholder in brackets
RemoteText ==
    << "w", "nl", "nl", "w", "sp", "lb", "w", "rb", "nl", "nl", "ns", "nl",
       "dash", "sp", "w", "nl", "nl", "sig", "nl", "w" >>

\* _generate_with_openai_if_available: the stripped content of the answer, or
\* nothing (None or "") with no key, a status >= 400, an exception, no content
generate_with_openai_if_available(remote) ==
    IF Strip(cfg.openai_api_key) = "" THEN << >>
    ELSE IF remote = "text" THEN strip(RemoteText)
    ELSE << >>

\* what a generator hands back: a text, or an exception
Generated(t) == [raised |-> FALSE, text |-> t]

GenerationRaises == [raised |-> TRUE, text |-> << >>]

\* ai_client.generate_with_gpt: RuntimeError with no settings.openai_api_key
\* or no openai library; with both, AttributeError, since Settings has no
\* field openai_model
generate_with_gpt == GenerationRaises

\* _stub_generate: a title, a paragraph and three numbered sections
stub_generate ==
    << "w", "nl", "nl", "w", "nl", "nl", "num", "sp", "w", "nl", "w", "nl", "nl",
       "num", "sp", "w", "nl", "w", "nl", "nl", "num", "sp", "w", "nl", "w" >>

\* apply_authority_before_diagnosis, apply_scope_guardrails,
\* apply_revision_policy, apply_value_framing and apply_smart_closing for a
\* filled form of tone "formal": the authority block goes before the first
\* section, then the scope lists, the revisions list, the price sentence and the
\* closing sentence, which holds the words "próximos passos", are appended
apply_form_blocks(raw) ==
    LET diag == First({ i \in DOMAIN raw : raw[i] = "num" })
        with_authority ==
            IF diag = 0 THEN raw
            ELSE SubSeq(raw, 1, diag - 1) \o <<"w", "nl", "w", "nl", "nl">>
                     \o SubSeq(raw, diag, Len(raw))
    IN  with_authority
           \o <<"nl", "nl", "w", "nl", "dash", "sp", "w", "nl">>
           \o <<"nl", "nl", "w", "nl", "dash", "sp", "w", "nl">>
           \o <<"nl", "nl", "w">>
           \o <<"nl", "nl", "w", "sp", "ns", "sp", "w">>

\* the rest of generate_proposal_text on the stub's text: the blocks, then
\* apply_next_steps
stub_proposal == apply_next_steps(apply_form_blocks(stub_generate))

\* generate_proposal_text: settings.ai_mode picks generate_with_gpt, whose
\* exception leaves the function, or the stub
generate_proposal_text ==
    IF Lower(cfg.ai_mode) = "gpt" THEN generate_with_gpt
    ELSE Generated(stub_proposal)

\* _finalize_proposal_text on the texts the generators hand to create_action
FinalTexts ==
    [t \in {strip(RemoteText), stub_proposal} |-> finalize_proposal_text(t)]

\* create_action, "geração GPT / fallback": the remote text when there is one,
\* else the local generator, then _finalize_proposal_text
generate_text(remote) ==
    LET text_out == generate_with_openai_if_available(remote) IN
    IF text_out # << >> THEN Generated(FinalTexts[text_out])
    ELSE LET local == generate_proposal_text IN
         IF local.raised THEN local
         ELSE Generated(FinalTexts[local.text])

\* the outcome of a step of create_action: where the request stands, its
\* locals, the tables as the step leaves them, the response if any
CreateGoes(pc, user, is_paid, plan, users_after) ==
    [pc |-> pc, user |-> user, is_paid |-> is_paid, plan |-> plan, text |-> << >>,
     users |-> users_after, proposals |-> proposals, resp |-> NoHttp]

CreateEnds(resp, users_after, proposals_after) ==
    [pc |-> "idle", user |-> NoUser, is_paid |-> FALSE, plan |-> "free", text |-> << >>,
     users |-> users_after, proposals |-> proposals_after, resp |-> resp]

\* _is_pro_user
is_pro_user(is_paid, plan) == is_paid \/ Lower(plan) = "pro"

\* the limit compared with > instead of >=
check_free_quota_above(user, is_paid, plan, used, users_after) ==
    IF is_pro_user(is_paid, plan)
    THEN CreateGoes("persist", user, is_paid, "pro", users_after)
    ELSE IF used > FREE_MONTHLY_LIMIT
    THEN CreateEnds(RedirectResponse("/paywall?reason=quota"), users_after, proposals)
    ELSE CreateGoes("increment", user, is_paid, "free", users_after)

\* the limit applied to every user, Pro or not
check_free_quota_everyone(user, is_paid, plan, used, users_after) ==
    IF used >= FREE_MONTHLY_LIMIT
    THEN CreateEnds(RedirectResponse("/paywall?reason=quota"), users_after, proposals)
    ELSE CreateGoes("increment", user, is_paid, "free", users_after)

\* _check_free_quota_or_redirect once info is read and reset if need be; the
\* plan it hands on is quota_meta["plan"]
check_free_quota(user, is_paid, plan, used, users_after) ==
    IF is_pro_user(is_paid, plan)
    THEN CreateGoes("persist", user, is_paid, "pro", users_after)
    ELSE IF used >= FREE_MONTHLY_LIMIT
    THEN CreateEnds(RedirectResponse("/paywall?reason=quota"), users_after, proposals)
    ELSE CreateGoes("increment", user, is_paid, "free", users_after)

\* create_action up to _get_user_or_redirect: the user row is loaded
create_begin(cookie) ==
    LET user == get_current_user(cookie) IN
    IF user = NoUser THEN CreateEnds(RedirectResponse("/login"), users, proposals)
    ELSE CreateGoes("fetch", user, users[user].is_paid, "free", users)

\* _fetch_user_plan_and_quota and the test of _maybe_reset_monthly_quota; with
\* no reset due the quota is checked against the row as loaded
create_fetch(me) ==
    LET row == users[me.user]
        plan == Lower(Strip(row.plan))
        needs_reset == \/ row.quota_reset_at = NoTime
                       \/ TimeLeq(row.quota_reset_at, now)
    IN  IF needs_reset THEN CreateGoes("reset", me.user, me.is_paid, plan, users)
        ELSE check_free_quota(me.user, me.is_paid, plan, row.monthly_quota_used, users)

\* the UPDATE and commit of _maybe_reset_monthly_quota, then the quota check;
\* the commit expires the loaded user, whose is_paid is read again
create_reset(me) ==
    LET users_after ==
            [users EXCEPT ![me.user].monthly_quota_used = 0,
                          ![me.user].quota_reset_at = first_day_next_month_utc(now)]
    IN  check_free_quota(me.user, users_after[me.user].is_paid, me.plan, 0, users_after)

\* the text of a Free request is generated, then _increment_free_quota
create_increment(me, remote) ==
    LET g == generate_text(remote)
        row == users[me.user]
        users_after ==
            IF row.plan = "free" /\ ~row.is_paid
            THEN [users EXCEPT ![me.user].monthly_quota_used = @ + 1]
            ELSE users
    IN  IF g.raised THEN CreateEnds(UnhandledError, users, proposals)
        ELSE [CreateGoes("persist", me.user, me.is_paid, me.plan, users_after)
                EXCEPT !.text = g.text]

\* the text of a Pro request is generated (that of a Free request was, before
\* the increment), then db.add(p); db.commit() and the result page
create_persist(me, remote) ==
    LET g == IF me.text # << >> THEN Generated(me.text) ELSE generate_text(remote) IN
    IF g.raised THEN CreateEnds(UnhandledError, users, proposals)
    ELSE CreateEnds(TemplateResponse("result.html", 200), users,
                    Append(proposals, NewProposal(me.user, now, g.text)))

-----------------------------------------------------------------------------
(* Actions of the site.                                                    *)

RegisterEmails == {" A@X.C ", "a@x.c", "b@x.c", "nobody"}

Passwords == {"12345", "secret"}

AdminKeys == {"123456", "wrong"}

UnlockEmails == {"A@X.C", "nobody"}

Register ==
    /\ \E email \in RegisterEmails, password \in Passwords :
         LET r == register_action(email, password) IN
         users' = r.users
    /\ UNCHANGED <<cfg, hookvars, accountvars, purevars, proposals, now, creates, sent>>

AdminUnlock ==
    /\ \E email \in UnlockEmails, key \in AdminKeys :
         LET r == admin_unlock(email, key) IN
         users' = r.users
    /\ UNCHANGED <<cfg, hookvars, accountvars, purevars, proposals, now, creates, sent>>

ProposalPdf ==
    /\ \E cookie \in Cookies, proposal_id \in 1..MaxProposals, renders \in BOOLEAN :
         LET r == proposal_pdf(cookie, proposal_id, renders) IN
         sent' = IF r.kind = "pdf"
                 THEN [cookie |-> cookie, proposal |-> r.proposal] ELSE sent
    /\ UNCHANGED <<users, cfg, hookvars, accountvars, purevars, proposals, now, creates>>

\* a registration arrives and runs up to its insert
RegisterArrive(k) ==
    /\ regs[k].pc = "idle"
    /\ \E email \in RegisterEmails, password \in Passwords :
         LET r == register_check(email, password) IN
         /\ regs' = [regs EXCEPT ![k] = [pc |-> r.pc, email |-> r.email]]
         /\ page' = IF r.pc = "idle" THEN [resp |-> r.resp, cookie |-> r.cookie]
                    ELSE page
         /\ users' = r.users
    /\ UNCHANGED <<cfg, hookvars, sitevars, purevars>>

\* the registration inserts its user and answers
RegisterInsert(k) ==
    /\ regs[k].pc = "insert"
    /\ LET r == register_insert(regs[k].email) IN
         /\ regs' = [regs EXCEPT ![k] = IdleRegister]
         /\ page' = [resp |-> r.resp, cookie |-> r.cookie]
         /\ users' = r.users
    /\ UNCHANGED <<cfg, hookvars, sitevars, purevars>>

\* the pages that only read: the state stays as it is
Home ==
    /\ \E cookie \in Cookies : home(cookie).status = 303
    /\ UNCHANGED vars

CreatePage ==
    /\ \E cookie \in Cookies : create_page(cookie).status \in {200, 303}
    /\ UNCHANGED vars

HistoryPage ==
    /\ \E cookie \in Cookies : history_page(cookie).resp.status \in {200, 303}
    /\ UNCHANGED vars

ProposalDetail ==
    /\ \E cookie \in Cookies, proposal_id \in 1..MaxProposals :
         proposal_detail(cookie, proposal_id).status \in {200, 303}
    /\ UNCHANGED vars

\* a step of worker k, whose outcome is r
CreateStep(k, r) ==
    /\ creates' = [creates EXCEPT ![k] = [pc |-> r.pc, user |-> r.user,
                                          is_paid |-> r.is_paid, plan |-> r.plan,
                                          text |-> r.text]]
    /\ users' = r.users
    /\ proposals' = r.proposals
    /\ UNCHANGED <<cfg, hookvars, accountvars, purevars, now, sent>>

CreateArrive(k) ==
    /\ creates[k].pc = "idle"
    /\ \E cookie \in Cookies : CreateStep(k, create_begin(cookie))

CreateFetch(k) ==
    /\ creates[k].pc = "fetch"
    /\ CreateStep(k, create_fetch(creates[k]))

CreateReset(k) ==
    /\ creates[k].pc = "reset"
    /\ CreateStep(k, create_reset(creates[k]))

CreateIncrement(k) ==
    /\ creates[k].pc = "increment"
    /\ \E remote \in RemoteOutcomes : CreateStep(k, create_increment(creates[k], remote))

CreatePersist(k) ==
    /\ creates[k].pc = "persist"
    /\ Len(proposals) < MaxProposals
    /\ \E remote \in RemoteOutcomes : CreateStep(k, create_persist(creates[k], remote))

\* the clock moves on between requests: a request lasts seconds, a cycle a month
Tick ==
    /\ \A k \in CreateWorkers : creates[k].pc = "idle"
    /\ Elapsed(now) < MaxTicks
    /\ now' = IF now.off = 0 THEN [now EXCEPT !.off = 1]
              ELSE first_day_next_month_utc(now)
    /\ UNCHANGED <<users, cfg, hookvars, accountvars, purevars, proposals, creates, sent>>

\* the site after /__migrate, with no user
Init ==
    /\ users = << >>
    /\ events = [e \in EventIds |-> 0]
    /\ cfg \in { cf \in Configs : cf.token # "" }
    /\ w = [p \in Workers |-> IdleWorker]
    /\ out = Sent(NoResp, FALSE)
    /\ proposals = << >>
    /\ now = StartTime
    /\ creates = [k \in CreateWorkers |-> IdleCreate]
    /\ sent = NoPdf
    /\ AccountIdle
    /\ PureIdle

Next ==
    \/ Register
    \/ AdminUnlock
    \/ ProposalPdf
    \/ Home
    \/ CreatePage
    \/ HistoryPage
    \/ ProposalDetail
    \/ Tick
    \/ \E k \in CreateWorkers :
         \/ CreateArrive(k)
         \/ CreateFetch(k)
         \/ CreateReset(k)
         \/ CreateIncrement(k)
         \/ CreatePersist(k)

Spec == Init /\ [][Next]_vars

\* nothing but the pure functions is under study
Dormant ==
    /\ users = << >>
    /\ events = [e \in EventIds |-> 0]
    /\ cfg \in { cf \in Configs : cf.token # "" }
    /\ w = [p \in Workers |-> IdleWorker]
    /\ out = Sent(NoResp, FALSE)
    /\ proposals = << >>
    /\ now = StartTime
    /\ creates = [k \in CreateWorkers |-> IdleCreate]
    /\ sent = NoPdf
    /\ AccountIdle

MaxLen == 4

\* the texts of at most MaxLen tokens
Texts == UNION { [1..n -> Tokens] : n \in 0..MaxLen }

TextInit ==
    /\ Dormant
    /\ draft \in Texts
    /\ closed = NotClosed
    /\ payload = BlankData
    /\ verdict = NoVerdict

\* create_action closes the text: _finalize_proposal_text(text_out)
Finalize ==
    /\ closed = NotClosed
    /\ closed' = [by |-> "finalize_proposal_text",
                  value |-> finalize_proposal_text(draft)]
    /\ UNCHANGED <<users, cfg, hookvars, sitevars, accountvars, draft, payload, verdict>>

\* generate_proposal_text closes the text: apply_next_steps(raw)
ApplyNextSteps ==
    /\ closed = NotClosed
    /\ closed' = [by |-> "apply_next_steps", value |-> apply_next_steps(draft)]
    /\ UNCHANGED <<users, cfg, hookvars, sitevars, accountvars, draft, payload, verdict>>

TextNext == Finalize \/ ApplyNextSteps

TextSpec == TextInit /\ [][TextNext]_vars

\* the payloads a delivery is classified from: status-like fields and flags,
\* approving and negative, in every combination
ClassifiedPayloads ==
    { [BlankData EXCEPT !["status"] = st, !["event"] = ev, !["order.status"] = os,
                        !["approved"] = ap, !["paid"] = pd,
                        !["refunded"] = rf, !["chargeback"] = cb] :
        st \in {NONE, "paid", "Refunded", "failed"},
        ev \in {NONE, "Order.Paid", "order.refunded", "subscription_canceled"},
        os \in {NONE, "approved", "chargeback"},
        ap \in {NONE, "true", "false"},
        pd \in {NONE, "true"},
        rf \in {NONE, "true", "false"},
        cb \in {NONE, "true"} }

PayloadInit ==
    /\ Dormant
    /\ draft = << >>
    /\ closed = NotClosed
    /\ payload \in ClassifiedPayloads
    /\ verdict = NoVerdict

\* the two classifications of one payload: is_payment_refunded_or_chargeback
\* and is_payment_approved
Classify ==
    /\ ~verdict.done
    /\ verdict' = [done |-> TRUE,
                   negative |-> is_payment_refunded_or_chargeback(payload),
                   approved |-> is_payment_approved(payload)]
    /\ UNCHANGED <<users, cfg, hookvars, sitevars, accountvars, draft, closed, payload>>

PayloadNext == Classify

PayloadSpec == PayloadInit /\ [][PayloadNext]_vars

\* the AI settings of a deployment: OPENAI_API_KEY set or not, AI_MODE stub
\* or gpt
AIConfigs ==
    { [cf EXCEPT !.ai_mode = mode, !.openai_api_key = key] :
        cf \in { c \in Configs : c.token # "" }, mode \in {"stub", "gpt"},
        key \in {"", " sk-1 "} }

\* the site with a paid and a Free user registered, under every AI setting
GenerateInit ==
    /\ users = << [NewUser("a@x.c") EXCEPT !.is_paid = TRUE], NewUser("b@x.c") >>
    /\ events = [e \in EventIds |-> 0]
    /\ cfg \in AIConfigs
    /\ w = [p \in Workers |-> IdleWorker]
    /\ out = Sent(NoResp, FALSE)
    /\ proposals = << >>
    /\ now = StartTime
    /\ creates = [k \in CreateWorkers |-> IdleCreate]
    /\ sent = NoPdf
    /\ AccountIdle
    /\ PureIdle

GenerateNext ==
    \E k \in CreateWorkers :
       \/ CreateArrive(k)
       \/ CreateFetch(k)
       \/ CreateReset(k)
       \/ CreateIncrement(k)
       \/ CreatePersist(k)

GenerateSpec == GenerateInit /\ [][GenerateNext]_vars

\* the accounts: concurrent registrations, and the admin's unlock
AccountNext ==
    \/ AdminUnlock
    \/ \E k \in RegisterWorkers : RegisterArrive(k) \/ RegisterInsert(k)

AccountSpec == Init /\ [][AccountNext]_vars

-----------------------------------------------------------------------------
(* Properties of the webhook.                                              *)

\* the result of a delivery's first step, input i of Inputs
Begun(i) == never_fail(kiwify_begin(Inputs[i][1], InputFacts[i], Inputs[i][2]))

\* the step leaves every User row and the WebhookEvent table as they are
NoWrite(r) == r.users = users /\ r.events = events

\* the step ends the delivery with the response ok=true, ignored=true
Ignored(r) == r.pc = "idle" /\ r.resp.status = 200 /\ r.resp.ok /\ r.resp.ignored

\* C2: once a WebhookEvent row with event_id E exists, a later delivery of an
\* approved webhook carrying E is ignored: it answers idempotent=true, changes
\* no User row and adds no WebhookEvent row.  Stated on the steps of a delivery
\* that arrived late and is still running: each leaves users and events as they
\* are, and its response is the idempotent one.
C2_LateDeliveryIgnored ==
    [][ \A p \in Workers :
          (w[p].late /\ w'[p] # w[p]) =>
             /\ users' = users
             /\ events' = events
             /\ (w'[p].pc = "idle" => out'.resp.idempotent) ]_vars

\* C3: under any interleaving of deliveries with the same event_id, no
\* event_id has more than one row; the delivery that loses the insert has its
\* IntegrityError rolled back (no row added) and still answers ok=true.
C3_OneRowPerEvent ==
    /\ \A e \in EventIds : events[e] <= 1
    /\ \A p \in Workers :
          (w[p].pc = "record" /\ event_by_id(w[p].eid)) =>
             \A fault \in RecordFaults :
                LET r == never_fail(kiwify_record(w[p], fault)) IN
                NoWrite(r) /\ r.resp.status = 200 /\ r.resp.ok
    /\ out.rolled_back => out.resp.status = 200 /\ out.resp.ok

\* a delivery lost the insert to a concurrent one, and has answered
C3_Witness ==
    /\ out.rolled_back
    /\ out.resp.approved
    /\ \E e \in EventIds : events[e] = 1

ClaimedToken(req) ==
    LET tok == IF Present(req.header) THEN req.header
               ELSE IF Present(req.qtoken) THEN req.qtoken
               ELSE req.qsignature
    IN  IF Present(tok) THEN bearer_stripped(tok) ELSE NONE

TokenReasons == {"token ausente", "token invalido"}

\* C5: with KIWIFY_WEBHOOK_TOKEN configured, a delivery whose token is absent
\* or differs from it is ignored: ok=true, ignored=true, no User row and no
\* WebhookEvent row changed.
C5_TokenChecked ==
    \A i \in DOMAIN Inputs :
       (Strip(cfg.token) # "" /\ ClaimedToken(Inputs[i][1]) # Strip(cfg.token)) =>
          LET r == Begun(i) IN
          Ignored(r) /\ r.resp.reason \in TokenReasons /\ NoWrite(r)

\* a delivery with a wrong token was ignored while the users are unpaid
C5_Witness ==
    /\ out.resp.reason = "token invalido"
    /\ \E u \in UserIds : ~users[u].is_paid

\* C6: a delivery whose payload is not approved (one that passed the token
\* check and carries a non-empty dict) is ignored with reason nao_aprovado,
\* changes no User row and records no WebhookEvent.
C6_OnlyApproved ==
    \A i \in DOMAIN Inputs :
       ( /\ ~InputFacts[i].approved
         /\ InputFacts[i].is_dict /\ ~InputFacts[i].empty
         /\ token_check(Inputs[i][1]) = "ok" ) =>
          LET r == Begun(i) IN
          Ignored(r) /\ r.resp.reason = "nao_aprovado" /\ NoWrite(r)

\* a delivery that is not approved was ignored
C6_Witness ==
    /\ out.resp.reason = "nao_aprovado"
    /\ \E u \in UserIds : ~users[u].is_paid

\* the payload's product, offer or plan id equals the configured one
ClaimedProMatch(markers) ==
    \/ Strip(cfg.pro_product) # "" /\ markers.product_id = Strip(cfg.pro_product)
    \/ Strip(cfg.pro_offer) # "" /\ markers.offer_id = Strip(cfg.pro_offer)
    \/ Strip(cfg.pro_plan) # "" /\ markers.plan_id = Strip(cfg.pro_plan)

NothingConfigured ==
    Strip(cfg.pro_product) = "" /\ Strip(cfg.pro_offer) = "" /\ Strip(cfg.pro_plan) = ""

PaidColumns(u) == <<u.is_paid, u.plan>>

\* C7: a delivery sets is_paid / plan only when its payload's product, offer or
\* plan id equals a configured KIWIFY_PRO_* id; with none configured no
\* delivery changes is_paid or plan of any user.
C7_OnlyProActivates ==
    /\ \A i \in DOMAIN Inputs :
          LET r == Begun(i) IN
          /\ r.users = users
          /\ (r.pc # "idle" /\ r.is_pro) => ClaimedProMatch(InputFacts[i].markers)
    /\ \A p \in Workers :
          /\ (w[p].pc # "idle" /\ w[p].is_pro) => ~NothingConfigured
          /\ w[p].pc = "update" =>
                \A fault \in UpdateFaults :
                   LET r == never_fail(kiwify_update(w[p], fault)) IN
                   \A u \in UserIds :
                      PaidColumns(r.users[u]) # PaidColumns(users[u]) =>
                         /\ w[p].is_pro /\ w[p].user = u
                         /\ r.users[u].is_paid /\ r.users[u].plan = "pro"
          /\ w[p].pc = "record" =>
                \A fault \in RecordFaults :
                   never_fail(kiwify_record(w[p], fault)).users = users
    /\ NothingConfigured =>
          \A u \in UserIds : PaidColumns(users[u]) = PaidColumns(NewUser(""))

\* a PRO purchase has activated one user and not the other
C7_Witness ==
    /\ \E u \in UserIds : users[u].is_paid /\ users[u].plan = "pro"
    /\ \E u \in UserIds : ~users[u].is_paid

\* C8: the user to unlock is the one with the extracted user_id when there is
\* one; the buyer email is used only when no user_id was extracted or no user
\* has it; when neither finds a user the delivery is ignored with reason
\* user_nao_encontrado and no User row changes.
C8_UserResolution ==
    \A i \in DOMAIN Inputs :
       LET uid == InputFacts[i].user_id
           email == InputFacts[i].buyer_email
           has_id == uid # NoUser /\ uid \in UserIds
           has_email == email # NONE
                        /\ \E u \in UserIds : Lower(users[u].email) = email
           reached == /\ InputFacts[i].approved
                      /\ InputFacts[i].is_dict /\ ~InputFacts[i].empty
                      /\ Inputs[i][2] = "none"
                      /\ token_check(Inputs[i][1]) = "ok"
                      /\ ~event_by_id(IF InputFacts[i].event_id # NONE
                                      THEN InputFacts[i].event_id ELSE SyntheticId)
           r == Begun(i)
       IN  /\ r.pc = "update" =>
                 /\ has_id => r.user = uid
                 /\ ~has_id => has_email /\ Lower(users[r.user].email) = email
           /\ r.resp.reason = "user_nao_encontrado" =>
                 ~has_id /\ ~has_email /\ Ignored(r) /\ NoWrite(r)
           /\ (reached /\ (has_id \/ has_email)) => r.pc = "update"
           /\ (reached /\ ~has_id /\ ~has_email) =>
                 r.resp.reason = "user_nao_encontrado"

\* one delivery found its user while another was ignored for finding none
C8_Witness ==
    /\ out.resp.reason = "user_nao_encontrado"
    /\ \E p \in Workers : w[p].pc = "update" /\ w[p].user \in UserIds

\* the user of a delivery is there and, for a PRO purchase, upgraded
Unlocked(table, user, is_pro) ==
    /\ user \in DOMAIN table
    /\ is_pro => table[user].is_paid /\ table[user].plan = "pro"

\* C19: a WebhookEvent row for event_id E is inserted only after the target
\* user was found and, for a PRO purchase, after the update of that user's
\* is_paid / plan has been committed; a delivery that ends as token-rejected,
\* empty payload, not approved or user-not-found records no WebhookEvent, so a
\* later redelivery of E is processed again: the idempotent answer is given
\* only when a row for E exists.
C19_EventRecordingOrder ==
    /\ \A i \in DOMAIN Inputs :
          LET r == Begun(i)
              eid == IF InputFacts[i].event_id # NONE THEN InputFacts[i].event_id
                     ELSE SyntheticId
          IN  /\ r.events = events
              /\ r.pc \in {"idle", "update"}
              /\ r.pc = "update" => r.user \in UserIds /\ r.eid = eid
              /\ r.resp.idempotent => event_by_id(eid)
    /\ \A p \in Workers :
          /\ w[p].pc = "update" =>
                /\ w[p].user \in UserIds
                /\ \A fault \in UpdateFaults :
                      LET r == never_fail(kiwify_update(w[p], fault)) IN
                      /\ r.events = events
                      /\ r.resp = NoResp => Unlocked(r.users, w[p].user, w[p].is_pro)
          /\ w[p].pc = "record" => Unlocked(users, w[p].user, w[p].is_pro)

\* a PRO purchase is about to be recorded, its user upgraded and its event
\* without a row, after a delivery that found no user
C19_Witness ==
    /\ \E p \in Workers :
          /\ w[p].pc = "record"
          /\ w[p].is_pro
          /\ w[p].eid \in EventIds
          /\ events[w[p].eid] = 0
          /\ users[w[p].user].plan = "pro"
    /\ out.resp.reason = "user_nao_encontrado"

-----------------------------------------------------------------------------
(* Properties of the site.                                                 *)

\* C1: for every request to GET /proposal/{id}/pdf: with no valid session user
\* the response is a 303 redirect to /login; with a user whose is_paid is false
\* it is a 303 redirect to /paywall?reason=pdf; a PDF is returned only to an
\* authenticated user with is_paid true, and only of a proposal of that user.
C1_PdfGate ==
    /\ \A cookie \in Cookies, proposal_id \in 1..MaxProposals, renders \in BOOLEAN :
          LET r == proposal_pdf(cookie, proposal_id, renders)
              user == get_current_user(cookie)
          IN  /\ user = NoUser =>
                    r.status = 303 /\ r.kind = "redirect" /\ r.target = "/login"
              /\ (user # NoUser /\ ~users[user].is_paid) =>
                    /\ r.status = 303 /\ r.kind = "redirect"
                    /\ r.target = "/paywall?reason=pdf"
              /\ r.kind = "pdf" =>
                    /\ user # NoUser /\ users[user].is_paid
                    /\ r.proposal = proposal_id
                    /\ proposal_id \in DOMAIN proposals
                    /\ proposals[proposal_id].user_id = user
    /\ sent # NoPdf =>
          LET user == get_current_user(sent.cookie) IN
          /\ user # NoUser /\ users[user].is_paid
          /\ sent.proposal \in DOMAIN proposals
          /\ proposals[sent.proposal].user_id = user

\* a paid user was sent the PDF of a proposal while an unpaid user has one too
C1_Witness ==
    /\ sent # NoPdf
    /\ \E i \in DOMAIN proposals :
          /\ proposals[i].user_id # get_current_user(sent.cookie)
          /\ ~users[proposals[i].user_id].is_paid

\* the row is of a user who is not Pro, has used up the Free quota, in a cycle
\* that has not ended
QuotaUsedUp(row) ==
    /\ ~row.is_paid /\ row.plan = "free"
    /\ row.monthly_quota_used >= FREE_MONTHLY_LIMIT
    /\ row.quota_reset_at # NoTime /\ ~TimeLeq(row.quota_reset_at, now)

\* the request ends with the redirect to the paywall and writes nothing
QuotaRedirect(r) ==
    /\ r.pc = "idle"
    /\ r.resp.status = 303 /\ r.resp.kind = "redirect"
    /\ r.resp.target = "/paywall?reason=quota"
    /\ r.users = users /\ r.proposals = proposals

ProposalsInCycle(u) ==
    { i \in DOMAIN proposals :
         /\ proposals[i].user_id = u
         /\ first_day_next_month_utc(proposals[i].created_at) = users[u].quota_reset_at }

\* C10: under any interleaving of concurrent POST /create requests of one Free
\* user, the Proposals persisted for the user within one quota cycle never
\* exceed FREE_MONTHLY_LIMIT.
C10_FreeLimitHolds ==
    \A u \in UserIds :
       (~users[u].is_paid /\ users[u].plan = "free") =>
          Cardinality(ProposalsInCycle(u)) <= FREE_MONTHLY_LIMIT

\* the proposals of user in the table
OwnedBy(user) == { i \in DOMAIN proposals : proposals[i].user_id = user }

\* the history query on a table of HISTORY_LIMIT + 1 proposals of one user
LongHistory ==
    newest_first([i \in 1..(HISTORY_LIMIT + 1) |-> NewProposal(1, StartTime, NEXT_STEPS_BLOCK)],
                 1, HISTORY_LIMIT)

-----------------------------------------------------------------------------
(* Properties of the accounts.                                             *)

\* the email, trimmed and lowercased, is the email of a user
Registered(email_in) == \E u \in UserIds : users[u].email = Lower(Strip(email_in))

\* C12: user emails are unique.  POST /register with an email that, trimmed
\* and lowercased, already belongs to a user answers 400 and creates no user;
\* in every reachable state, concurrent registrations of one email included,
\* no two User rows share an email: the registration that loses the insert
\* adds no row.
C12_EmailsUnique ==
    /\ \A u, v \in UserIds : u # v => users[u].email # users[v].email
    /\ \A email \in RegisterEmails, password \in Passwords :
          Registered(email) =>
             LET r == register_action(email, password) IN
             /\ r.resp.status = 400 /\ r.resp.kind = "html"
             /\ r.users = users /\ r.cookie = NoCookie
    /\ \A k \in RegisterWorkers :
          (regs[k].pc = "insert" /\ Registered(regs[k].email)) =>
             register_insert(regs[k].email).users = users

\* of two concurrent registrations of one email, one has inserted its user
\* and the other has lost the insert
C12_Witness ==
    /\ page.resp = UnhandledError
    /\ Len(users) = 1
    /\ \A k \in RegisterWorkers : regs[k].pc = "idle"

\* C13: a newly registered user starts unpaid.  Every successful POST
\* /register creates exactly one User, with is_paid false, sets the session
\* cookie of that user and redirects (303) to /paywall; a registration that
\* does not succeed creates no user and sets no cookie.
C13_StartsUnpaid ==
    /\ \A k \in RegisterWorkers :
          regs[k].pc = "insert" =>
             LET r == register_insert(regs[k].email)
                 id == Len(users) + 1
             IN  IF r.resp.status = 303
                 THEN /\ r.resp = RedirectResponse("/paywall")
                      /\ Len(r.users) = id
                      /\ \A u \in UserIds : r.users[u] = users[u]
                      /\ r.users[id].email = regs[k].email
                      /\ ~r.users[id].is_paid
                      /\ r.cookie.present /\ r.cookie.sig_ok
                      /\ int_of(r.cookie.sub) = id
                 ELSE r.users = users /\ r.cookie = NoCookie
    /\ \A email \in RegisterEmails, password \in Passwords :
          LET r == register_check(email, password) IN
          /\ r.users = users /\ r.cookie = NoCookie
          /\ r.resp.status # 303
    /\ page.resp.status = 303 =>
          /\ page.resp = RedirectResponse("/paywall")
          /\ get_current_user(page.cookie) # NoUser
    /\ page.resp.status # 303 => page.cookie = NoCookie

\* a registration has just succeeded: its cookie is the session of an unpaid
\* user, while an older user is paid
C13_Witness ==
    /\ page.resp = RedirectResponse("/paywall")
    /\ get_current_user(page.cookie) = Len(users)
    /\ ~users[Len(users)].is_paid
    /\ \E u \in UserIds : users[u].is_paid

-----------------------------------------------------------------------------
(* Properties of the text pipeline.                                        *)

\* token i of t is the first thing on its line, blanks aside
StartsLine(t, i) ==
    \A k \in 1..(i - 1) :
       (\A m \in k..(i - 1) : t[m] \notin {"nl", "cr"}) => t[k] = "sp"

\* t ends with the fixed block and nothing after it, no "Próximos passos"
\* heading starts a line before the block, and no signature word starts a line
StandardClosing(t) ==
    LET cut == Len(t) - Len(NEXT_STEPS_BLOCK) IN
    /\ cut >= 0
    /\ SubSeq(t, cut + 1, Len(t)) = NEXT_STEPS_BLOCK
    /\ \A i \in 1..cut : t[i] = "ns" => ~StartsLine(t, i)
    /\ \A i \in DOMAIN t : t[i] = "sig" => ~StartsLine(t, i)

\* C15 as stated: for every input text, the empty one included,
\* _finalize_proposal_text and apply_next_steps each return a text that ends
\* exactly with NEXT_STEPS_BLOCK, with no earlier line-start "Próximos passos"
\* heading before it and no signature line anywhere.
C15_BothClose ==
    closed # NotClosed => StandardClosing(closed.value)

\* C15, amended: for every input text, the empty one included,
\* _finalize_proposal_text (sanitize_proposal_text, then apply_next_steps)
\* returns a text that ends exactly with NEXT_STEPS_BLOCK, with no earlier
\* line-start "Próximos passos" heading before it and no signature line.
C15_FinalizeCloses ==
    closed.by = "finalize_proposal_text" => StandardClosing(closed.value)

\* a text with a heading and a signature line of its own has been closed
C15_Witness ==
    /\ closed.by = "finalize_proposal_text"
    /\ \E i, j \in DOMAIN draft :
          /\ draft[i] = "ns" /\ StartsLine(draft, i)
          /\ draft[j] = "sig" /\ StartsLine(draft, j)
    /\ \E i \in DOMAIN draft : draft[i] = "w"

-----------------------------------------------------------------------------
(* Properties of the payment classification.                               *)

\* C16: for every payload for which is_payment_refunded_or_chargeback returns
\* true (a negative status or a truthy refunded / chargeback flag),
\* is_payment_approved returns false, even when the payload also carries
\* approved=true, paid=true or an approved status in another field.
C16_NegativeNeverApproved ==
    verdict.done /\ is_payment_refunded_or_chargeback(payload) =>
        /\ verdict.negative
        /\ ~verdict.approved

\* a refunded payload that also says approved, paid and "paid" was classified
C16_Witness ==
    /\ verdict.done
    /\ verdict.negative
    /\ payload["approved"] = "true"
    /\ payload["paid"] = "true"
    /\ norm(payload["status"]) \in ok_values
    /\ is_payment_approved_unguarded(payload)

-----------------------------------------------------------------------------
(* Properties of the quota cycle.                                          *)

\* 00:00 of the first day of the month after t
NextMonthStart(t) ==
    IF t.month = 12 THEN [year |-> t.year + 1, month |-> 1, off |-> 0]
    ELSE [year |-> t.year, month |-> t.month + 1, off |-> 0]

\* tables a and b agree on every row but that of user, and on the columns of
\* that row outside the quota
SameButQuota(a, b, user) ==
    /\ DOMAIN a = DOMAIN b
    /\ \A u \in DOMAIN a : u # user => a[u] = b[u]
    /\ a[user].email = b[user].email
    /\ a[user].is_paid = b[user].is_paid
    /\ a[user].plan = b[user].plan

ProRequest(k) ==
    LET me == creates[k] IN
    CASE me.pc = "fetch" -> me.is_paid \/ Lower(Strip(users[me.user].plan)) = "pro"
      [] me.pc = "reset" -> users[me.user].is_paid \/ me.plan = "pro"
      [] me.pc = "increment" -> users[me.user].is_paid \/ users[me.user].plan # "free"
      [] me.pc = "persist" -> me.plan = "pro"
      [] OTHER -> FALSE

\* the outcome of the step worker k is about to take
NextStep(k) ==
    LET me == creates[k]
        remote == CHOOSE o \in RemoteOutcomes : TRUE
    IN  CASE me.pc = "fetch" -> create_fetch(me)
          [] me.pc = "reset" -> create_reset(me)
          [] me.pc = "increment" -> create_increment(me, remote)
          [] OTHER -> create_persist(me, remote)

ToPaywallForQuota == RedirectResponse("/paywall?reason=quota")

\* the quota check lets every Pro user through, whatever the count
ProPassesCheck ==
    \A user \in UserIds, is_paid \in BOOLEAN, plan \in {"free", "pro"},
       used \in 0..(FREE_MONTHLY_LIMIT + 1) :
       is_pro_user(is_paid, plan) =>
           LET r == check_free_quota(user, is_paid, plan, used, users) IN
           r.pc = "persist" /\ r.resp = NoHttp /\ r.users = users

\* C18 as stated: for a user with is_paid=true or plan='pro', POST /create is
\* never redirected to the paywall for quota, whatever monthly_quota_used is,
\* and create_action leaves that user's monthly_quota_used unchanged.
C18_ProUntouched ==
    /\ ProPassesCheck
    /\ \A k \in CreateWorkers :
          ProRequest(k) =>
              /\ NextStep(k).resp # ToPaywallForQuota
              /\ NextStep(k).users[creates[k].user].monthly_quota_used
                    = users[creates[k].user].monthly_quota_used

\* C18, amended: for a user with is_paid=true or plan='pro', POST /create is
\* never redirected to the paywall for quota, whatever monthly_quota_used is,
\* and create_action never increments that user's monthly_quota_used; the
\* only write to it is the monthly reset to 0, made for Pro users as well
\* when quota_reset_at is null or has passed.
C18_ProNotMetered ==
    /\ ProPassesCheck
    /\ \A k \in CreateWorkers :
          ProRequest(k) =>
              LET r == NextStep(k)
                  user == creates[k].user
              IN  /\ r.resp # ToPaywallForQuota
                  /\ r.pc # "increment"
                  /\ IF creates[k].pc = "reset"
                     THEN r.users[user].monthly_quota_used = 0
                     ELSE r.users = users

\* a paid user over the limit is about to pass the quota check
C18_Witness ==
    \E k \in CreateWorkers :
       /\ creates[k].pc = "fetch"
       /\ creates[k].is_paid
       /\ users[creates[k].user].monthly_quota_used >= FREE_MONTHLY_LIMIT
       /\ create_fetch(creates[k]).pc = "persist"

-----------------------------------------------------------------------------
(* Properties of the session.                                              *)

\* the cookie is present, validly signed and unexpired, its "sub" parses as
\* an integer, and a User with that id exists
ValidSession(cookie) ==
    /\ cookie.present
    /\ cookie.sig_ok
    /\ cookie.sub \in {"1", "2", "3"}
    /\ \E u \in UserIds : str_of(u) = cookie.sub

ToLogin == RedirectResponse("/login")

\* C20: get_current_user returns a user only when the access_token cookie is
\* present, decodes as a validly signed unexpired JWT, carries a "sub" that
\* parses as an integer, and a User with that id exists; in every other case
\* it returns None, and then GET /, GET and POST /create, GET /history,
\* GET /proposal/{id} and GET /proposal/{id}/pdf all answer 303 to /login,
\* list nothing and leave the tables as they are.
C20_SessionAuthentication ==
    \A cookie \in Cookies :
       /\ get_current_user(cookie) # NoUser <=> ValidSession(cookie)
       /\ get_current_user(cookie) # NoUser =>
              str_of(get_current_user(cookie)) = cookie.sub
       /\ ~ValidSession(cookie) =>
              /\ home(cookie) = ToLogin
              /\ create_page(cookie) = ToLogin
              /\ create_begin(cookie) = CreateEnds(ToLogin, users, proposals)
              /\ history_page(cookie) = Page(ToLogin, << >>)
              /\ \A proposal_id \in 1..MaxProposals :
                    /\ proposal_detail(cookie, proposal_id) = ToLogin
                    /\ \A renders \in BOOLEAN :
                          proposal_pdf(cookie, proposal_id, renders) = ToLogin

\* there is a paid user with a proposal, whose session is valid, while a
\* badly signed cookie with the same "sub" and the cookie of a user that does
\* not exist are not
C20_Witness ==
    /\ Len(users) = 1
    /\ users[1].is_paid
    /\ \E p \in DOMAIN proposals : proposals[p].user_id = 1
    /\ get_current_user(Jwt(TRUE, "1")) = 1
    /\ ~ValidSession(Jwt(FALSE, "1"))
    /\ ~ValidSession(Jwt(TRUE, "2"))

-----------------------------------------------------------------------------
(* Properties of the generation.                                           *)

\* the step of worker k, past the quota gate, for remote outcome remote
GenerationStep(k, remote) ==
    IF creates[k].pc = "increment" THEN create_increment(creates[k], remote)
    ELSE create_persist(creates[k], remote)

\* the generation of worker k raises for remote outcome remote
GenerationFails(k, remote) ==
    /\ creates[k].pc \in {"increment", "persist"}
    /\ GenerationStep(k, remote).resp = UnhandledError

\* C14: for every authenticated POST /create that passes the quota gate, under
\* every configuration (OPENAI_API_KEY set or not, AI_MODE stub or gpt) and
\* every remote outcome (no key, HTTP status >= 400, exception, empty content,
\* a text), the remote text or that of the local generator is used: the
\* request goes on with a non-empty text, persists exactly one Proposal of
\* its user with that text, and does not end in an error.
C14_AlwaysYieldsProposal ==
    \A k \in CreateWorkers, remote \in RemoteOutcomes :
       LET me == creates[k]
           r == GenerationStep(k, remote)
       IN  /\ me.pc = "increment" =>
                 /\ r.resp = NoHttp
                 /\ r.pc = "persist"
                 /\ r.text # << >>
                 /\ r.proposals = proposals
           /\ me.pc = "persist" =>
                 /\ r.resp = TemplateResponse("result.html", 200)
                 /\ Len(r.proposals) = Len(proposals) + 1
                 /\ SubSeq(r.proposals, 1, Len(proposals)) = proposals
                 /\ r.proposals[Len(r.proposals)].user_id = me.user
                 /\ r.proposals[Len(r.proposals)].proposal_text # << >>

====
